---- MODULE Spec2Model ----
(***************************************************************************)
(* State-machine model of esp32_lcd_display.ino: the OPD queue display     *)
(* client (setup, loop, fetchAndDisplay, padRight).                        *)
(*                                                                         *)
(* Strings are TLA+ strings (Len, \o and SubSeq act on them as on the      *)
(* Arduino String).  The millisecond counter millis() is kept modulo       *)
(* 2^ClockBits; uptime is the true time since boot, kept beside it so that *)
(* wraparound can be told from elapsed time.                               *)
(***************************************************************************)
EXTENDS Integers, Sequences, FiniteSets, TLC

(* ------------------------- program constants ------------------------- *)

POLL_INTERVAL == 5000

LCD_COLS == 16

MaxAttempts == 30

AttemptDelay == 500

ConnectedDelay == 2000

HaltDelay == 1000

HttpTimeout == 4000

HTTP_OK == 200

DocCapacity == 256

\* Significant bits of the 32-bit float that holds estimatedWait.
FloatMantissaBits == 24

(* ------------------------------ bounds -------------------------------- *)

\* Width of the free-running millisecond counter in the model (32 on the
\* device).  Wide enough that startup (at most 17000 ms) does not wrap.
ClockBits == 15

\* Largest current_token the wide response set enumerates.
MaxToken == 1000

ClockModulus == 2 ^ ClockBits

\* The model stops the clock here: one wraparound plus two poll intervals.
MaxUptime == ClockModulus + 2 * POLL_INTERVAL

\* Time that passes in a loop() iteration that does not poll.
Tick == AttemptDelay

(* ------------------------------ strings ------------------------------- *)

Digits == "0123456789"

DigitChar(d) == SubSeq(Digits, d + 1, d + 1)

RECURSIVE NatToStr(_)
NatToStr(n) == IF n < 10 THEN DigitChar(n) ELSE NatToStr(n \div 10) \o DigitChar(n % 10)

\* String(int): decimal digits, a leading '-' for negative values.
IntToStr(n) == IF n < 0 THEN "-" \o NatToStr(-n) ELSE NatToStr(n)

RECURSIVE PadLoop(_, _)
PadLoop(s, length) == IF Len(s) < length THEN PadLoop(s \o " ", length) ELSE s

PadRightCut(s, length) == IF Len(s) > length THEN SubSeq(s, 1, length) ELSE s

\* padRight without its cut (line 197 missing).
PadRightNoCut(s, length) == PadLoop(s, length)

\* padRight: append spaces while shorter, then cut when longer.
PadRight(s, length) == PadRightCut(PadLoop(s, length), length)

(* ------------------------------ display ------------------------------- *)

BlankRow == PadLoop("", LCD_COLS)

\* lcd.clear()
LcdClear == <<BlankRow, BlankRow>>

\* lcd.setCursor(0, row); lcd.print(s): the characters of s replace the row
\* from column 0; columns past the 16th are not visible.
LcdPrint(l, row, s) ==
    [l EXCEPT ![row] = IF Len(s) >= LCD_COLS
                         THEN SubSeq(s, 1, LCD_COLS)
                         ELSE s \o SubSeq(@, Len(s) + 1, LCD_COLS)]

LocalIP == "192.168.1.23"

WelcomeFrame == LcdPrint(LcdPrint(LcdClear, 1, "OPD Queue System"), 2, "Connecting WiFi.")

ConnectedFrame == LcdPrint(LcdPrint(LcdClear, 1, "WiFi Connected!"), 2, LocalIP)

FailedFrame == LcdPrint(LcdPrint(LcdClear, 1, "WiFi Failed!"), 2, "Check config...")

(* ------------------------------- state -------------------------------- *)

VARIABLES
    pc,            \* "setup_while" | "setup_if" | "loop" | "halt"
    wifi,          \* WiFi.status() == WL_CONNECTED
    attempts,      \* setup's attempt counter
    millis,        \* millis(), modulo 2^ClockBits
    lastPollTime,  \* the global lastPollTime
    lcd,           \* the two visible rows of the display
    printed,       \* the strings handed to lcd.print by the last handler
    cycle,         \* what the last fetchAndDisplay did
    uptime,        \* true milliseconds since boot
    pollUptime,    \* uptime when lastPollTime was last assigned
    prevLost       \* the cycle before the last one found the link down

vars == <<pc, wifi, attempts, millis, lastPollTime, lcd, printed, cycle, uptime, pollUptime, prevLost>>

\* delay(d), or any other passage of d milliseconds.
Advance(d) ==
    /\ uptime + d <= MaxUptime
    /\ uptime' = uptime + d
    /\ millis' = (millis + d) % ClockModulus

(* ---------------------------- environment ----------------------------- *)

LinkUp ==
    /\ ~wifi
    /\ wifi' = TRUE
    /\ UNCHANGED <<pc, attempts, millis, lastPollTime, lcd, printed, cycle, uptime, pollUptime, prevLost>>

LinkDown ==
    /\ wifi
    /\ wifi' = FALSE
    /\ UNCHANGED <<pc, attempts, millis, lastPollTime, lcd, printed, cycle, uptime, pollUptime, prevLost>>

(* ------------------------------- setup -------------------------------- *)

\* while (WiFi.status() != WL_CONNECTED && attempts < 30)
SetupWaitCond == ~wifi /\ attempts < MaxAttempts

\* The loop body: delay(500); attempts++.
SetupWait ==
    /\ pc = "setup_while"
    /\ SetupWaitCond
    /\ Advance(AttemptDelay)
    /\ attempts' = attempts + 1
    /\ UNCHANGED <<pc, wifi, lastPollTime, lcd, printed, cycle, pollUptime, prevLost>>

\* The loop condition is false: fall through to the if at line 84.
SetupLeave ==
    /\ pc = "setup_while"
    /\ ~SetupWaitCond
    /\ pc' = "setup_if"
    /\ UNCHANGED <<wifi, attempts, millis, lastPollTime, lcd, printed, cycle, uptime, pollUptime, prevLost>>

\* The outcome of setup decided by the attempt counter.
SetupLinkOkByCount == attempts < MaxAttempts

\* if (WiFi.status() == WL_CONNECTED)
SetupLinkOk == wifi

SetupConnected ==
    /\ pc = "setup_if"
    /\ SetupLinkOk
    /\ lcd' = ConnectedFrame
    /\ printed' = <<"WiFi Connected!", LocalIP>>
    /\ Advance(ConnectedDelay)
    /\ pc' = "loop"
    /\ UNCHANGED <<wifi, attempts, lastPollTime, cycle, pollUptime, prevLost>>

SetupFailed ==
    /\ pc = "setup_if"
    /\ ~SetupLinkOk
    /\ lcd' = FailedFrame
    /\ printed' = <<"WiFi Failed!", "Check config...">>
    /\ pc' = "halt"
    /\ UNCHANGED <<wifi, attempts, millis, lastPollTime, cycle, uptime, pollUptime, prevLost>>

\* A halt loop that leaves for loop() once the link is up.
HaltUntilLinked ==
    /\ pc = "halt"
    /\ Advance(HaltDelay)
    /\ pc' = IF wifi THEN "loop" ELSE "halt"
    /\ UNCHANGED <<wifi, attempts, lastPollTime, lcd, printed, cycle, pollUptime, prevLost>>

\* while (true) { delay(1000); }
Halt ==
    /\ pc = "halt"
    /\ Advance(HaltDelay)
    /\ UNCHANGED <<pc, wifi, attempts, lastPollTime, lcd, printed, cycle, pollUptime, prevLost>>

(* --------------------------- JSON document --------------------------- *)

\* A JSON value as ArduinoJson's JsonVariant holds it.  A float carries its
\* value in tenths (n = 243 is 24.3).
Absent == [t |-> "absent", n |-> 0, s |-> ""]

JNull == [t |-> "null", n |-> 0, s |-> ""]

JBool(b) == [t |-> "bool", n |-> IF b THEN 1 ELSE 0, s |-> ""]

JInt(i) == [t |-> "int", n |-> i, s |-> ""]

JFloat(tenths) == [t |-> "float", n |-> tenths, s |-> ""]

JStr(str) == [t |-> "str", n |-> 0, s |-> str]

\* A JSON number with more decimals than tenths, in units of 1/FineScale
\* (binary fixed point: 24 * FineScale - 1 is a little under 24).
FineScale == 2 ^ 21

JFine(units) == [t |-> "fine", n |-> units, s |-> ""]

\* An HTTP response body: whether it is well-formed JSON, the bytes its
\* document needs in the decoder's pool, and the members the code reads.
Body(wellformed, size, success, hasData, token, wait, count, status) ==
    [wellformed |-> wellformed, size |-> size, success |-> success, hasData |-> hasData,
     token |-> token, wait |-> wait, count |-> count, status |-> status]

NoBody == Body(FALSE, 0, Absent, FALSE, Absent, Absent, Absent, Absent)

\* StaticJsonDocument<256> doc; deserializeJson(doc, payload)
DeserializeJson(body) ==
    IF ~body.wellformed THEN "InvalidInput"
    ELSE IF body.size > DocCapacity THEN "NoMemory"
    ELSE "Ok"

\* doc["success"] == true: ArduinoJson compares a variant with a bool
\* arithmetically, so the boolean true and the number 1 are equal to it;
\* false, null, a string or a missing member are not.
SuccessIsTrue(body) ==
    \/ body.success.t = "bool" /\ body.success.n = 1
    \/ body.success.t = "int" /\ body.success.n = 1

\* JsonObject data = doc["data"]; data[key]: a missing data object has no
\* members.
DataMember(body, key) == IF body.hasData THEN body[key] ELSE Absent

\* (int) of a float: truncation toward zero.
TruncTenths(tenths) == IF tenths >= 0 THEN tenths \div 10 ELSE -((-tenths) \div 10)

\* data["current_token"].isNull() ? -1 : (int)data["current_token"]
CurrentToken(body) ==
    LET v == DataMember(body, "token")
    IN IF v.t \in {"absent", "null"} THEN -1
       ELSE IF v.t \in {"int", "bool"} THEN v.n
       ELSE IF v.t = "float" THEN TruncTenths(v.n)
       ELSE 0

RECURSIVE BitLength(_)
BitLength(n) == IF n = 0 THEN 0 ELSE 1 + BitLength(n \div 2)

\* The assignment of a double to a float: the nearest number with 24
\* significant bits, ties to the even one.  n counts equal binary units.
RoundToFloat(n) ==
    IF BitLength(n) <= FloatMantissaBits THEN n
    ELSE LET q == 2 ^ (BitLength(n) - FloatMantissaBits)
             r == n % q
             down == n - r
         IN IF 2 * r > q \/ (2 * r = q /\ (down \div q) % 2 = 1) THEN down + q ELSE down

\* A number of FineScale units in tenths, rounded down.
FineToTenths(n) == 10 * (n \div FineScale) + (10 * (n % FineScale)) \div FineScale

\* float estimatedWait = data["estimated_wait_min"] | 0.0, in tenths.  The
\* double is narrowed to a float; for a number given in tenths (below 2^20)
\* that leaves its integer part as it is.
EstimatedWait(body) ==
    LET v == DataMember(body, "wait")
    IN IF v.t = "float" THEN v.n
       ELSE IF v.t = "int" THEN 10 * RoundToFloat(v.n)
       ELSE IF v.t = "fine" THEN FineToTenths(RoundToFloat(v.n))
       ELSE 0

\* data["waiting_count"] | 0
WaitingCount(body) ==
    LET v == DataMember(body, "count") IN IF v.t = "int" THEN v.n ELSE 0

\* The status default taken to be "consulting".
StatusOfDefaultConsulting(body) ==
    LET v == DataMember(body, "status") IN IF v.t = "str" THEN v.s ELSE "consulting"

\* data["status"] | "idle"
StatusOf(body) ==
    LET v == DataMember(body, "status") IN IF v.t = "str" THEN v.s ELSE "idle"

(* --------------------------- fetchAndDisplay -------------------------- *)

\* The zero padding with <= in place of < in its two comparisons.
TokenDigitsInclusive(currentToken) ==
    IF currentToken <= 10 THEN "00" \o IntToStr(currentToken)
    ELSE IF currentToken <= 100 THEN "0" \o IntToStr(currentToken)
    ELSE IntToStr(currentToken)

\* The zero padding carried on to a fourth digit.
TokenDigitsFourWide(currentToken) ==
    IF currentToken < 10 THEN "00" \o IntToStr(currentToken)
    ELSE IF currentToken < 100 THEN "0" \o IntToStr(currentToken)
    ELSE IF currentToken < 10000 THEN "0" \o IntToStr(currentToken)
    ELSE IntToStr(currentToken)

\* The three-way zero padding of lines 154-156.
TokenDigits(currentToken) ==
    IF currentToken < 10 THEN "00" \o IntToStr(currentToken)
    ELSE IF currentToken < 100 THEN "0" \o IntToStr(currentToken)
    ELSE IntToStr(currentToken)

\* The serving test with currentToken >= 0.
IsServingFromZero(status, currentToken) == status = "consulting" /\ currentToken >= 0

\* status == "consulting" && currentToken > 0
IsServing(status, currentToken) == status = "consulting" /\ currentToken > 0

BuildLine1(status, currentToken) ==
    IF IsServing(status, currentToken) THEN "NOW: #" \o TokenDigits(currentToken)
    ELSE "QUEUE IDLE"

BuildLine2(estimatedWait) == "Wait: ~" \o IntToStr(TruncTenths(estimatedWait)) \o " min"

\* statusCode == 200
IsHttpOk(statusCode) == statusCode = HTTP_OK

\* The decode test without the "success" comparison.
DecodeOkAnySuccess(body) == DeserializeJson(body) = "Ok"

\* !error && doc["success"] == true
DecodeOk(body) == DeserializeJson(body) = "Ok" /\ SuccessIsTrue(body)

\* The strings the success branch hands to lcd.print (lines 169 and 173).
SuccessPrints(line1, line2) == <<PadRight(line1, LCD_COLS), PadRight(line2, LCD_COLS)>>

\* The strings the error branches hand to lcd.print.
WifiLostPrints == <<"WiFi Lost...">>

ParseErrorPrints == <<"Parse Error">>

\* The HTTP error branch without its second line.
ServerErrorPrintsNoCode(statusCode) == <<"Server Error">>

ServerErrorPrints(statusCode) == <<"Server Error", "Code: " \o IntToStr(statusCode)>>

\* The prints of a frame without the lcd.clear() before them.
ShowFrameNoClear(prints) ==
    IF Len(prints) = 1 THEN LcdPrint(lcd, 1, prints[1])
    ELSE LcdPrint(LcdPrint(lcd, 1, prints[1]), 2, prints[2])

\* lcd.clear() followed by one lcd.print per row, from row 0.
ShowFrame(prints) ==
    IF Len(prints) = 1 THEN LcdPrint(LcdClear, 1, prints[1])
    ELSE LcdPrint(LcdPrint(LcdClear, 1, prints[1]), 2, prints[2])

Cycle(kind, linkOk, gets, begins, ends, code, body, line1, line2) ==
    [kind |-> kind, linkOk |-> linkOk, gets |-> gets, begins |-> begins, ends |-> ends,
     code |-> code, body |-> body, line1 |-> line1, line2 |-> line2]

NoCycle == Cycle("None", FALSE, 0, 0, 0, 0, NoBody, "", "")

\* The early return of lines 116-121: no URL, no HTTPClient.
LinkLostCycle ==
    /\ printed' = WifiLostPrints
    /\ lcd' = ShowFrame(WifiLostPrints)
    /\ cycle' = Cycle("LinkUnavailable", FALSE, 0, 0, 0, 0, NoBody, "", "")

\* The request path with a return from the Parse Error branch.
RequestCycleLeak(statusCode, body) ==
    IF IsHttpOk(statusCode)
    THEN IF DecodeOk(body)
         THEN LET line1 == BuildLine1(StatusOf(body), CurrentToken(body))
                  line2 == BuildLine2(EstimatedWait(body))
              IN /\ printed' = SuccessPrints(line1, line2)
                 /\ lcd' = ShowFrame(SuccessPrints(line1, line2))
                 /\ cycle' = Cycle("Success", TRUE, 1, 1, 1, statusCode, body, line1, line2)
         ELSE /\ printed' = ParseErrorPrints
              /\ lcd' = ShowFrame(ParseErrorPrints)
              /\ cycle' = Cycle("DecodeError", TRUE, 1, 1, 0, statusCode, body, "", "")
    ELSE /\ printed' = ServerErrorPrints(statusCode)
         /\ lcd' = ShowFrame(ServerErrorPrints(statusCode))
         /\ cycle' = Cycle("HttpError", TRUE, 1, 1, 1, statusCode, NoBody, "", "")

\* The request path with a second GET after a failed one.
RequestCycleRetry(statusCode, body) ==
    IF IsHttpOk(statusCode)
    THEN IF DecodeOk(body)
         THEN LET line1 == BuildLine1(StatusOf(body), CurrentToken(body))
                  line2 == BuildLine2(EstimatedWait(body))
              IN /\ printed' = SuccessPrints(line1, line2)
                 /\ lcd' = ShowFrame(SuccessPrints(line1, line2))
                 /\ cycle' = Cycle("Success", TRUE, 1, 1, 1, statusCode, body, line1, line2)
         ELSE /\ printed' = ParseErrorPrints
              /\ lcd' = ShowFrame(ParseErrorPrints)
              /\ cycle' = Cycle("DecodeError", TRUE, 1, 1, 1, statusCode, body, "", "")
    ELSE /\ printed' = ServerErrorPrints(statusCode)
         /\ lcd' = ShowFrame(ServerErrorPrints(statusCode))
         /\ cycle' = Cycle("HttpError", TRUE, 2, 1, 1, statusCode, NoBody, "", "")

\* Lines 123-191: http.begin, one GET, the three branches, http.end.
RequestCycle(statusCode, body) ==
    IF IsHttpOk(statusCode)
    THEN IF DecodeOk(body)
         THEN LET line1 == BuildLine1(StatusOf(body), CurrentToken(body))
                  line2 == BuildLine2(EstimatedWait(body))
              IN /\ printed' = SuccessPrints(line1, line2)
                 /\ lcd' = ShowFrame(SuccessPrints(line1, line2))
                 /\ cycle' = Cycle("Success", TRUE, 1, 1, 1, statusCode, body, line1, line2)
         ELSE /\ printed' = ParseErrorPrints
              /\ lcd' = ShowFrame(ParseErrorPrints)
              /\ cycle' = Cycle("DecodeError", TRUE, 1, 1, 1, statusCode, body, "", "")
    ELSE /\ printed' = ServerErrorPrints(statusCode)
         /\ lcd' = ShowFrame(ServerErrorPrints(statusCode))
         /\ cycle' = Cycle("HttpError", TRUE, 1, 1, 1, statusCode, NoBody, "", "")

\* fetchAndDisplay without its connectivity pre-check.
LinkCheckSkipped == TRUE

\* A pre-check that stays failed once it has failed.
LinkCheckSticky == wifi /\ cycle.kind # "LinkUnavailable"

\* if (WiFi.status() != WL_CONNECTED)
LinkCheck == wifi

\* fetchAndDisplay() with the response the server gives this cycle.  A
\* body is read only from a 200 response.
FetchAndDisplay(codes, bodies) ==
    IF ~LinkCheck THEN LinkLostCycle
    ELSE \E statusCode \in codes :
           \E body \in (IF statusCode = HTTP_OK THEN bodies ELSE {NoBody}) :
             RequestCycle(statusCode, body)

(* -------------------------------- loop -------------------------------- *)

\* now - lastPollTime in unsigned arithmetic of the counter's width
Elapsed(now, last) == (now - last) % ClockModulus

\* The interval check as a direct comparison of timestamps.
ShouldPollDirect(now, last) == now >= last + POLL_INTERVAL

\* if (now - lastPollTime >= POLL_INTERVAL)
ShouldPoll(now, last) == Elapsed(now, last) >= POLL_INTERVAL

\* A poll that stamps lastPollTime when the fetch has returned.
LoopPollEndStamp(codes, bodies, durs) ==
    /\ pc = "loop"
    /\ ShouldPoll(millis, lastPollTime)
    /\ FetchAndDisplay(codes, bodies)
    /\ \E dur \in durs : Advance(dur)
    /\ lastPollTime' = millis'
    /\ pollUptime' = uptime'
    /\ prevLost' = (cycle.kind = "LinkUnavailable")
    /\ UNCHANGED <<pc, wifi, attempts>>

\* A poll that pushes lastPollTime one interval ahead when the cycle fails.
LoopPollBackoff(codes, bodies, durs) ==
    /\ pc = "loop"
    /\ ShouldPoll(millis, lastPollTime)
    /\ pollUptime' = uptime
    /\ FetchAndDisplay(codes, bodies)
    /\ lastPollTime' = IF cycle'.kind = "Success" THEN millis
                       ELSE (millis + POLL_INTERVAL) % ClockModulus
    /\ \E dur \in durs : Advance(dur)
    /\ prevLost' = (cycle.kind = "LinkUnavailable")
    /\ UNCHANGED <<pc, wifi, attempts>>

\* A loop() iteration whose interval check is satisfied; the fetch blocks
\* for dur milliseconds.
LoopPoll(codes, bodies, durs) ==
    /\ pc = "loop"
    /\ ShouldPoll(millis, lastPollTime)
    /\ lastPollTime' = millis
    /\ pollUptime' = uptime
    /\ FetchAndDisplay(codes, bodies)
    /\ \E dur \in durs : Advance(dur)
    /\ prevLost' = (cycle.kind = "LinkUnavailable")
    /\ UNCHANGED <<pc, wifi, attempts>>

\* A loop() iteration whose interval check is not satisfied.
LoopSkip ==
    /\ pc = "loop"
    /\ ~ShouldPoll(millis, lastPollTime)
    /\ Advance(Tick)
    /\ UNCHANGED <<pc, wifi, attempts, lastPollTime, lcd, printed, cycle, pollUptime, prevLost>>

(* ------------------------- response sets ------------------------------ *)

\* How long a fetch may block: not at all, the request timeout, longer
\* than a poll interval.
FetchDurations == {0, HttpTimeout, POLL_INTERVAL + Tick}

GoodBody(token, wait, status) == Body(TRUE, 64, JBool(TRUE), TRUE, token, wait, Absent, status)

SmallCodes == {HTTP_OK, 201, 500, -11}

SmallBodies ==
    { GoodBody(JInt(7), JFloat(243), JStr("consulting")),
      GoodBody(Absent, JInt(5), JStr("idle")),
      Body(FALSE, 64, Absent, FALSE, Absent, Absent, Absent, Absent),
      Body(TRUE, 64, JBool(FALSE), TRUE, JInt(7), JFloat(243), Absent, JStr("consulting")) }

(* --------------------------- specification --------------------------- *)

\* The state when setup reaches its while loop: welcome screen shown,
\* WiFi.begin called, attempts = 0.
Init ==
    /\ pc = "setup_while"
    /\ wifi = FALSE
    /\ attempts = 0
    /\ millis = 0
    /\ lastPollTime = 0
    /\ lcd = WelcomeFrame
    /\ printed = <<"OPD Queue System", "Connecting WiFi.">>
    /\ cycle = NoCycle
    /\ uptime = 0
    /\ pollUptime = 0
    /\ prevLost = FALSE

Next ==
    \/ LinkUp
    \/ LinkDown
    \/ SetupWait
    \/ SetupLeave
    \/ SetupConnected
    \/ SetupFailed
    \/ Halt
    \/ LoopPoll(SmallCodes, SmallBodies, FetchDurations)
    \/ LoopSkip

Spec == Init /\ [][Next]_vars

\* setup() runs on: its while statement and its if statement are each
\* executed when control stands at them.
FairSpec ==
    /\ Spec
    /\ WF_vars(SetupWait \/ SetupLeave)
    /\ WF_vars(SetupConnected \/ SetupFailed)

\* The Arduino core calls loop() again whenever it returns.
FairLoopSpec ==
    /\ FairSpec
    /\ WF_vars(LoopPoll(SmallCodes, SmallBodies, FetchDurations) \/ LoopSkip)

(* ------------------- one poll cycle, every response ------------------- *)

WideCodes == {-11, -1, 200, 201, 204, 299, 301, 404, 500}

\* Every current_token from -1 to MaxToken, while a patient is consulting.
TokenSweep == { GoodBody(JInt(t), JFloat(243), JStr("consulting")) : t \in -1 .. MaxToken }

\* Tokens of four and more digits, up to the largest int.
LargeTokens ==
    { GoodBody(JInt(t), JFloat(243), JStr("consulting")) :
        t \in {9999, 10000, 123456, 2147483647} }

MixedTokens == {Absent, JNull, JInt(-1), JInt(0), JInt(1), JInt(42), JInt(137)}

MixedWaits ==
    {Absent, JInt(5), JFloat(239), JFloat(240), JInt(100000),
     JFine(24 * FineScale - 1), JFine(24 * FineScale - FineScale \div 8), JInt(16777217)}

MixedStatuses == {Absent, JNull, JStr("idle"), JStr("consulting"), JStr("Consulting")}

MixedBodies ==
    { GoodBody(token, wait, status) :
        token \in MixedTokens, wait \in MixedWaits, status \in MixedStatuses }

\* Bodies that differ in what the decoder makes of them: malformed text, a
\* document at and one byte over the pool's capacity, no data object, and
\* each kind of top-level "success" member.
DecoderBodies ==
    { Body(wellformed, size, success, hasData, JInt(7), JFloat(243), JInt(3), JStr("consulting")) :
        wellformed \in BOOLEAN, size \in {64, DocCapacity, DocCapacity + 1},
        success \in {JBool(TRUE), JBool(FALSE), Absent, JNull, JStr("true"), JInt(0), JInt(1)},
        hasData \in BOOLEAN }

WideBodies == TokenSweep \cup LargeTokens \cup MixedBodies \cup DecoderBodies

\* The state in which loop() is first entered when the link was up at
\* setup's first check: Init, LinkUp, SetupLeave, SetupConnected.
InitCycle ==
    /\ pc = "loop"
    /\ wifi = TRUE
    /\ attempts = 0
    /\ millis = ConnectedDelay
    /\ lastPollTime = 0
    /\ lcd = ConnectedFrame
    /\ printed = <<"WiFi Connected!", LocalIP>>
    /\ cycle = NoCycle
    /\ uptime = ConnectedDelay
    /\ pollUptime = 0
    /\ prevLost = FALSE

\* SpecCycle follows the device up to just after its first poll.
CycleHorizon == POLL_INTERVAL + Tick

InHorizon == uptime' <= CycleHorizon

NextCycle ==
    \/ LinkUp /\ InHorizon
    \/ LinkDown /\ InHorizon
    \/ LoopSkip /\ InHorizon
    \/ LoopPoll(WideCodes, WideBodies, {0}) /\ InHorizon

SpecCycle == InitCycle /\ [][NextCycle]_vars

(* ------------------------------ claims -------------------------------- *)

ErrorKinds == {"LinkUnavailable", "HttpError", "DecodeError"}

AllPrinted(P(_)) == \A i \in 1 .. Len(printed) : P(printed[i])

HasWidth(s) == Len(s) = LCD_COLS

IsNarrower(s) == Len(s) < LCD_COLS

RawServing ==
    /\ cycle.body.hasData
    /\ cycle.body.status = JStr("consulting")
    /\ cycle.body.token.t = "int"
    /\ cycle.body.token.n >= 1

StartsWith(s, prefix) == Len(s) >= Len(prefix) /\ SubSeq(s, 1, Len(prefix)) = prefix

\* C2: after a successful decode line 1 is "NOW: #<token>" exactly when
\* status is "consulting" and current_token is present and >= 1; in every
\* other successful decode line 1 is "QUEUE IDLE".
C2_ServingIff ==
    cycle.kind = "Success" =>
        IF RawServing
        THEN StartsWith(cycle.line1, "NOW: #") /\ StartsWith(lcd[1], "NOW: #")
        ELSE cycle.line1 = "QUEUE IDLE" /\ lcd[1] = "QUEUE IDLE      "

\* status "consulting" with the smallest serving token.
C2_Witness ==
    /\ cycle.kind = "Success"
    /\ RawServing
    /\ cycle.body.token.n = 1
    /\ lcd[1] = "NOW: #001       "

ThreeDigits(t) == DigitChar(t \div 100) \o DigitChar((t \div 10) % 10) \o DigitChar(t % 10)

\* C3: a serving token t in 1..999 is shown as exactly three digits, t
\* zero-padded on the left (two zeros below 10, one below 100, none from
\* 100), so line 1 before padding is "NOW: #" and those digits: 9 characters.
C3_TokenThreeDigits ==
    (cycle.kind = "Success" /\ RawServing /\ cycle.body.token.n <= 999) =>
        LET t == cycle.body.token.n
        IN /\ cycle.line1 = "NOW: #" \o ThreeDigits(t)
           /\ Len(cycle.line1) = 9
           /\ lcd[1] = "NOW: #" \o ThreeDigits(t) \o "       "
           /\ t < 10 => SubSeq(cycle.line1, 7, 8) = "00" /\ SubSeq(cycle.line1, 9, 9) # "0"
           /\ (10 <= t /\ t < 100) =>
                SubSeq(cycle.line1, 7, 7) = "0" /\ SubSeq(cycle.line1, 8, 8) # "0"
           /\ t >= 100 => SubSeq(cycle.line1, 7, 7) # "0"

C3_Witness ==
    /\ cycle.kind = "Success"
    /\ RawServing
    /\ cycle.body.token.n = 42
    /\ cycle.line1 = "NOW: #042"

\* C8 (as stated): a response goes to the JSON decoder when its status
\* code is in 200..299, and shows "Server Error" exactly when it is not.
C8_TwoHundredClass ==
    cycle.gets = 1 =>
        /\ cycle.kind = "HttpError" <=> cycle.code \notin 200 .. 299
        /\ lcd[1] = "Server Error    " <=> cycle.code \notin 200 .. 299

\* The decoder fails on the last body: not JSON, or larger than its pool.
RawDecodeFails == ~cycle.body.wellformed \/ cycle.body.size > 256

\* The top-level "success" member of the last body is the boolean true.
RawSuccessTrue == cycle.body.success = JBool(TRUE)

\* C9 (as stated): a 200 response whose body does not decode, or whose
\* "success" is not true (false, absent, non-boolean), shows "Parse Error"
\* on line 1 and a blank line 2, and no Serving/Idle/Wait line.
C9_NotTrueIsParseError ==
    (cycle.gets = 1 /\ cycle.code = 200 /\ (RawDecodeFails \/ ~RawSuccessTrue)) =>
        /\ cycle.kind = "DecodeError"
        /\ lcd = <<"Parse Error     ", "                ">>

\* The claims below are about the whole life of the device, under Spec.

\* A step of loop() (not of the link) in which fetchAndDisplay ran.
PollStep == pc = "loop" /\ pollUptime' # pollUptime

\* A step of setup() or loop(), not of the link.
ProgramStep == wifi' = wifi

\* C4: a poll cycle that starts with the link down issues no HTTP request,
\* shows "WiFi Lost..." on line 1 and returns; a GET is issued only in a
\* cycle whose pre-check found the link up.
C4_NoRequestWhenLinkDown ==
    [][PollStep =>
         /\ pc' = "loop"
         /\ IF wifi
            THEN cycle'.gets = 1 /\ cycle'.kind # "LinkUnavailable"
            ELSE /\ cycle'.gets = 0
                 /\ cycle'.begins = 0
                 /\ cycle'.kind = "LinkUnavailable"
                 /\ lcd' = <<"WiFi Lost...    ", "                ">>]_vars

\* A cycle found the link down after an earlier cycle had made a request.
C4_Witness ==
    /\ cycle.kind = "LinkUnavailable"
    /\ cycle.gets = 0
    /\ lcd[1] = "WiFi Lost...    "
    /\ pollUptime > POLL_INTERVAL

\* C5: Failed is terminal.  When setup's final check finds the link down
\* the device halts; from then on it stays halted, no poll cycle runs, no
\* request is issued and the display keeps "WiFi Failed!" and
\* "Check config...", whatever the link does.
C5_FailedIsTerminal ==
    /\ [][(pc = "setup_if" /\ ~wifi /\ ProgramStep) => pc' = "halt"]_vars
    /\ [][pc = "halt" =>
            /\ pc' = "halt"
            /\ lcd' = lcd
            /\ cycle' = cycle
            /\ lastPollTime' = lastPollTime]_vars
    /\ [](pc = "halt" =>
            /\ lcd = <<"WiFi Failed!    ", "Check config... ">>
            /\ cycle.kind = "None"
            /\ cycle.gets = 0)

\* Halted after 30 attempts, the link up by now, several delays later.
C5_Witness ==
    /\ pc = "halt"
    /\ attempts = MaxAttempts
    /\ wifi
    /\ uptime >= MaxAttempts * AttemptDelay + 3 * HaltDelay

InSetup == pc \in {"setup_while", "setup_if"}

\* C6: the startup handshake waits at most 30 times 500 ms, eventually
\* resolves, and resolves to Connected when the status check after the last
\* wait (the if of line 84) finds the link up and to Failed otherwise, also
\* when the link came up during the 30th wait.
C6_BoundedHandshake ==
    /\ <>(~InSetup)
    /\ [](InSetup =>
            /\ attempts <= MaxAttempts
            /\ uptime = attempts * AttemptDelay
            /\ ENABLED (SetupWait \/ SetupLeave \/ SetupConnected \/ SetupFailed))
    /\ [][(pc = "setup_while" /\ ProgramStep) =>
            IF ~wifi /\ attempts < 30
            THEN pc' = "setup_while" /\ attempts' = attempts + 1
            ELSE pc' = "setup_if" /\ attempts' = attempts]_vars
    /\ [][(pc = "setup_if" /\ ProgramStep) =>
            /\ pc' \in {"loop", "halt"}
            /\ pc' = "loop" <=> wifi
            /\ pc' = "halt" <=> ~wifi]_vars
    /\ [][~InSetup => ~InSetup']_vars

\* Connected although all 30 attempts were used: the link came up during
\* the last wait.
C6_Witness ==
    /\ pc = "loop"
    /\ attempts = MaxAttempts
    /\ uptime = MaxAttempts * AttemptDelay + ConnectedDelay
    /\ lcd[1] = "WiFi Connected! "

\* C7: the poll decision survives wraparound of the counter.  A loop()
\* iteration polls exactly when 5000 ms or more of true time have passed
\* since the previous poll (since boot for the first), whether or not the
\* counter wrapped in between; the true time between polls stays below one
\* period of the counter.
C7_PollAcrossWraparound ==
    /\ [](pc = "loop" => uptime - pollUptime < ClockModulus)
    /\ [][(pc = "loop" /\ ProgramStep) =>
            /\ (pollUptime' # pollUptime) <=> (uptime - pollUptime >= POLL_INTERVAL)
            /\ (pollUptime' # pollUptime) => (pollUptime' = uptime /\ lastPollTime' = millis)
            /\ (pollUptime' = pollUptime) => lastPollTime' = lastPollTime]_vars

\* A poll made after the counter wrapped whose predecessor was made before:
\* the new lastPollTime is a small number, less than 5000 past zero.
C7_Witness ==
    /\ pc = "loop"
    /\ cycle.kind # "None"
    /\ pollUptime >= ClockModulus
    /\ pollUptime - ClockModulus < POLL_INTERVAL
    /\ lastPollTime = pollUptime - ClockModulus

\* The text of line 2 for the codes the model enumerates.
CodeText(code) ==
    CASE code = -11 -> "Code: -11"
      [] code = -1 -> "Code: -1"
      [] code = 201 -> "Code: 201"
      [] code = 500 -> "Code: 500"
      [] OTHER -> "Code: ?"

\* C10: a request that fails with a non-200 code, negative codes of the
\* transport included, fails that cycle only: the frame is "Server Error"
\* and "Code: " with the code verbatim, the device stays in loop(), and
\* the next cycle starts when 5000 ms have passed since this cycle started.
C10_FailedRequestIsTransient ==
    /\ [](cycle.kind = "HttpError" =>
            /\ pc = "loop"
            /\ printed = <<"Server Error", CodeText(cycle.code)>>
            /\ lcd = <<"Server Error    ", PadLoop(CodeText(cycle.code), 16)>>)
    /\ [][(cycle.kind = "HttpError" /\ ProgramStep) =>
            /\ pc' = "loop"
            /\ (pollUptime' # pollUptime) <=> (uptime - pollUptime >= POLL_INTERVAL)]_vars
    /\ [](cycle.kind = "HttpError" /\ uptime - pollUptime >= POLL_INTERVAL
            => ENABLED LoopPoll(SmallCodes, SmallBodies, {0}))

\* A read timeout (-11) on the display, the cycle before it also a failure.
C10_Witness ==
    /\ cycle.kind = "HttpError"
    /\ cycle.code = -11
    /\ lcd = <<"Server Error    ", "Code: -11       ">>
    /\ pollUptime >= 2 * POLL_INTERVAL

(* --------------------- claims C11 to C19 ------------------------------ *)

\* The data member of the last decoded body, as the code reads it.
RawMember(key) == IF cycle.body.hasData THEN cycle.body[key] ELSE Absent

\* The estimated wait of the last body truncated toward zero (every wait
\* the model enumerates is >= 0), 0 when the member is missing.
RawWaitFloor ==
    LET v == RawMember("wait")
    IN CASE v.t = "int" -> v.n
         [] v.t = "float" -> v.n \div 10
         [] v.t = "fine" -> v.n \div FineScale
         [] OTHER -> 0

\* C11 (as stated): in both non-error states line 2 before padding is
\* "Wait: ~", the estimated wait truncated toward zero, " min", the same
\* whether line 1 is the Serving or the Idle line.
C11_WaitTruncated ==
    cycle.kind = "Success" =>
        cycle.line2 = "Wait: ~" \o IntToStr(RawWaitFloor) \o " min"

\* What remains true of C11: for a wait that a 32-bit float holds exactly,
\* or that is given in tenths, line 2 is the truncated wait in both frames.
C11_ExactWaits ==
    (cycle.kind = "Success" /\ RawMember("wait") \notin {JFine(24 * FineScale - 1), JInt(16777217)}) =>
        /\ cycle.line2 = "Wait: ~" \o IntToStr(RawWaitFloor) \o " min"
        /\ printed[2] = PadRight(cycle.line2, LCD_COLS)

\* C12: missing data members take their defaults.  An absent or null
\* current_token means nobody is served, an absent estimated_wait_min is 0,
\* an absent status is "idle": a body with no data members or no data
\* object shows "QUEUE IDLE" and "Wait: ~0 min", an absent status shows
\* "QUEUE IDLE" even with a positive token, and a null token is treated as
\* an absent one.
C12_Defaults ==
    cycle.kind = "Success" =>
        /\ RawMember("token").t \in {"absent", "null"} => cycle.line1 = "QUEUE IDLE"
        /\ RawMember("status").t = "absent" => cycle.line1 = "QUEUE IDLE"
        /\ RawMember("wait").t = "absent" => cycle.line2 = "Wait: ~0 min"
        /\ (RawMember("token").t = "absent" /\ RawMember("status").t = "absent"
              /\ RawMember("wait").t = "absent")
             => lcd = <<"QUEUE IDLE      ", "Wait: ~0 min    ">>

\* No status member, a positive token, no wait member.
C12_Witness ==
    /\ cycle.kind = "Success"
    /\ cycle.body.hasData
    /\ cycle.body.status = Absent
    /\ cycle.body.token = JInt(42)
    /\ cycle.body.wait = Absent
    /\ lcd = <<"QUEUE IDLE      ", "Wait: ~0 min    ">>

\* A body with "success": true and no data object at all.
C12_NoDataObjectShown ==
    /\ cycle.kind = "Success"
    /\ ~cycle.body.hasData
    /\ lcd = <<"QUEUE IDLE      ", "Wait: ~0 min    ">>

\* The frame each outcome of a cycle must leave on the display, written
\* out for the responses of Spec: the outcome is the branch taken, the
\* status code and the body, and nothing of the display before it.
CodeRow(code) ==
    CASE code = 201 -> "Code: 201       "
      [] code = 500 -> "Code: 500       "
      [] code = -11 -> "Code: -11       "
      [] OTHER -> "Code: ?"

FrameOf(c) ==
    CASE c.kind = "LinkUnavailable" -> <<"WiFi Lost...    ", BlankRow>>
      [] c.kind = "DecodeError" -> <<"Parse Error     ", BlankRow>>
      [] c.kind = "HttpError" -> <<"Server Error    ", CodeRow(c.code)>>
      [] c.kind = "Success" ->
            IF c.body.token = JInt(7) THEN <<"NOW: #007       ", "Wait: ~24 min   ">>
            ELSE <<"QUEUE IDLE      ", "Wait: ~5 min    ">>

\* C13: idempotence and full overwrite.  After a poll cycle both rows of
\* the display are a function of that cycle's outcome alone: the same
\* outcome always gives the same frame, and no character of an earlier
\* frame is still visible.
C13_FrameFromOutcomeAlone ==
    cycle.kind # "None" => lcd = FrameOf(cycle)

\* An idle frame rendered over the longer "WiFi Lost..." frame.
C13_Witness ==
    /\ prevLost
    /\ cycle.kind = "Success"
    /\ lcd = <<"QUEUE IDLE      ", "Wait: ~5 min    ">>

AnyOutcome == ErrorKinds \cup {"Success"}

\* The model's clock has room for the poll that follows the last one.
ClockLeft == pollUptime + POLL_INTERVAL + Tick <= MaxUptime

\* C14: no backoff and no memory of failures.  Every satisfied interval
\* check sets lastPollTime to the timestamp of that check whatever the
\* cycle then does; after a cycle of any outcome the next poll fires as
\* soon as 5000 ms have passed since that check and not before; and once
\* startup has succeeded polls keep occurring for as long as the clock
\* advances (pollUptime changes only in a poll, so the last conjunct says
\* that polls go on until the clock has no room for another).
C14_NoBackoff ==
    /\ [][(pc = "loop" /\ ProgramStep) =>
            /\ PollStep => /\ lastPollTime' = millis
                           /\ pollUptime' = uptime
                           /\ cycle'.kind \in AnyOutcome
            /\ cycle.kind \in AnyOutcome =>
                   (PollStep <=> uptime - pollUptime >= POLL_INTERVAL)]_vars
    /\ [](pc = "loop" => <>(~ClockLeft))

\* The second poll comes exactly one interval after a first poll that
\* found the link down.
C14_Witness ==
    /\ prevLost
    /\ attempts = 0
    /\ pollUptime = 2 * POLL_INTERVAL
    /\ cycle.kind = "HttpError"

\* C15: at most one network attempt per poll cycle and no overlap.  A
\* cycle issues exactly one GET when its link pre-check passes and none
\* otherwise, never a second one after a failure; and a cycle starts only
\* on a newly satisfied interval check, with the session of the cycle
\* before it closed, so no two requests are outstanding together.
C15_OneRequestPerCycle ==
    [][PollStep =>
          /\ cycle.begins = cycle.ends
          /\ uptime - pollUptime >= POLL_INTERVAL
          /\ cycle'.gets = IF wifi THEN 1 ELSE 0
          /\ cycle'.begins = cycle'.ends]_vars

\* The second cycle starts when the first fetch, which blocked for longer
\* than an interval, has returned; its one GET fails and is not repeated.
C15_Witness ==
    /\ attempts = 0
    /\ pollUptime = 2 * POLL_INTERVAL + Tick
    /\ cycle.kind = "HttpError"
    /\ cycle.code = 500
    /\ cycle.gets = 1

RECURSIVE DecimalDigits(_)
DecimalDigits(n) == IF n < 10 THEN 1 ELSE 1 + DecimalDigits(n \div 10)

\* C16 (as stated): a serving token of 1000 or more is shown as "NOW: #"
\* and its digits without zero padding, and that line is longer than the
\* 16 columns of the display before it is cut.
C16_LargeTokenOverflows ==
    (cycle.kind = "Success" /\ RawServing /\ cycle.body.token.n >= 1000) =>
        /\ cycle.line1 = "NOW: #" \o IntToStr(cycle.body.token.n)
        /\ Len(cycle.line1) > LCD_COLS

\* C16 (amended): a serving token of 1000 or more, up to the largest int,
\* is shown as "NOW: #" and its digits without zero padding; the line is 6
\* characters plus one per digit, 10 to 16 in all, so it fits the display:
\* padRight fills it with blanks and cuts nothing.
C16_LargeTokenFits ==
    (cycle.kind = "Success" /\ RawServing /\ cycle.body.token.n >= 1000) =>
        LET t == cycle.body.token.n
        IN /\ cycle.line1 = "NOW: #" \o IntToStr(t)
           /\ SubSeq(cycle.line1, 7, 7) # "0"
           /\ Len(cycle.line1) = 6 + DecimalDigits(t)
           /\ Len(cycle.line1) >= 10 /\ Len(cycle.line1) <= LCD_COLS
           /\ Len(printed[1]) = LCD_COLS
           /\ StartsWith(printed[1], cycle.line1)
           /\ lcd[1] = printed[1]

\* The largest int: ten digits, a line of exactly 16 characters.
C16_Witness ==
    /\ cycle.kind = "Success"
    /\ RawServing
    /\ cycle.body.token.n = 2147483647
    /\ lcd[1] = "NOW: #2147483647"

\* The smallest token of the claim.
C16_FourDigitsShown ==
    /\ cycle.kind = "Success"
    /\ RawServing
    /\ cycle.body.token.n = 1000
    /\ lcd[1] = "NOW: #1000      "

\* C17: losing the link after startup is recoverable and never fatal.
\* The halted Failed state is entered only from setup's final check and
\* loop() is never left; the link is examined anew in every cycle, which
\* shows "WiFi Lost..." exactly when it finds the link down; and a cycle
\* that finds the link up, the one after a "WiFi Lost..." cycle included,
\* issues its GET and shows the result.
C17_LinkLossRecoverable ==
    [][/\ (pc' = "halt" /\ pc # "halt") => pc = "setup_if"
       /\ pc = "loop" => pc' = "loop"
       /\ PollStep =>
            /\ cycle'.kind = "LinkUnavailable" <=> ~wifi
            /\ ~wifi => lcd' = <<"WiFi Lost...    ", BlankRow>>
            /\ wifi => /\ cycle'.gets = 1
                       /\ cycle'.kind \in {"Success", "DecodeError", "HttpError"}
                       /\ lcd' = FrameOf(cycle')
                       /\ lcd'[1] # "WiFi Lost...    "]_vars

\* A token on the display in the cycle after one that found the link down.
C17_Witness ==
    /\ pc = "loop"
    /\ prevLost
    /\ cycle.kind = "Success"
    /\ cycle.gets = 1
    /\ lcd = <<"NOW: #007       ", "Wait: ~24 min   ">>

\* C18: the interval is measured from boot and from start to start.
\* lastPollTime is 0 until the first poll and from then on the clock value
\* sampled at the start of the latest cycle, before its fetch blocks; so the
\* first fetch is made by the first loop() iteration that finds the clock
\* at 5000 ms or more since boot, which is the very first one when startup
\* took that long, and a fetch that blocks for 5000 ms or more is followed
\* by the next poll in the next loop() iteration.
C18_StartToStart ==
    /\ [](cycle.kind = "None" => lastPollTime = 0 /\ pollUptime = 0)
    /\ [](lastPollTime = pollUptime % ClockModulus)
    /\ [][(pc = "loop" /\ ProgramStep) =>
            /\ PollStep => pollUptime' = uptime /\ lastPollTime' = millis
            /\ cycle.kind = "None" => (PollStep <=> uptime >= POLL_INTERVAL)
            /\ (cycle.kind # "None" /\ uptime - pollUptime >= POLL_INTERVAL) => PollStep]_vars

\* Startup took 17000 ms, so the first loop() iteration polled; its fetch
\* blocked for longer than an interval, so the next iteration polls again.
C18_Witness ==
    /\ pc = "loop"
    /\ attempts = MaxAttempts
    /\ cycle.kind = "Success"
    /\ pollUptime = MaxAttempts * AttemptDelay + ConnectedDelay
    /\ uptime = pollUptime + POLL_INTERVAL + Tick
    /\ ShouldPoll(millis, lastPollTime)

\* C19: every HTTP session a cycle opens is closed before the cycle
\* returns.  On each path that issues the request (Serving, Idle, Parse
\* Error, Server Error) http.begin and http.end are each called once; the
\* "WiFi Lost..." path opens no session and closes none.
C19_SessionsClosed ==
    /\ cycle.begins = cycle.ends
    /\ cycle.kind \in {"Success", "DecodeError", "HttpError"} =>
           cycle.gets = 1 /\ cycle.begins = 1 /\ cycle.ends = 1
    /\ cycle.kind \in {"None", "LinkUnavailable"} =>
           cycle.gets = 0 /\ cycle.begins = 0 /\ cycle.ends = 0

\* A Parse Error cycle, its session opened and closed.
C19_Witness ==
    /\ cycle.kind = "DecodeError"
    /\ cycle.begins = 1
    /\ cycle.ends = 1
    /\ lcd = <<"Parse Error     ", BlankRow>>

====
